---- MODULE Spec2Model ----
(***************************************************************************)
(* Model of the MISRA-C chatbot: chatbot_engine.extract_text (PDF text     *)
(* extraction with a pdfplumber -> fitz fallback), chatbot_engine.ask_bot  *)
(* (keyword driven template selection) and the Streamlit form of app.py    *)
(* that calls them.                                                        *)
(*                                                                         *)
(* A Python str is a sequence of atoms.  An atom is either one character   *)
(* (the characters of a query, of a page text) or one literal of the       *)
(* source that the program only ever copies (a header line, a rule, a      *)
(* code template).  "+" is \o, "\n".join is join.                          *)
(***************************************************************************)
EXTENDS Integers, Sequences, FiniteSets

VARIABLES
    MISRA_RULES,    \* module global, chatbot_engine.py:18
    pdfplumber,     \* module global: Module or None, chatbot_engine.py:8-11
    fitz,           \* module global: Module or None, chatbot_engine.py:13-16
    uploaded,       \* app.py:7, the file_uploader widget: NoUpload or a payload
    query,          \* app.py:8, the text_input widget
    asked,          \* the query argument of the last ask_bot call
    datasheet_text, \* the datasheet_text argument of the last ask_bot call
    response,       \* the value the last ask_bot call returned
    prevAsked,      \* history: the query argument of a remembered earlier call
    prevText,       \* history: the datasheet_text argument of that call
    prevResponse,   \* history: the value that call returned
    pc,             \* position inside extract_text
    caller,         \* who called extract_text: "app" or "direct"
    uploaded_file,  \* the argument of extract_text
    text_parts,     \* chatbot_engine.py:37
    idx,            \* pages of the open document already visited
    handles,        \* document handles that are open
    result,         \* the value extract_text returned
    opened,         \* history: backends whose open succeeded in this call
    attempted,      \* history: backends whose helper was entered in this call
    pageFailed,     \* history: <<backend, page>> whose text retrieval threw
    faults          \* history: other failure sites that threw in this call

prev == <<prevAsked, prevText, prevResponse>>
botVars == <<query, asked, datasheet_text, response, prev>>
extVars == <<pc, caller, uploaded_file, text_parts, idx, handles, result,
             opened, attempted, pageFailed, faults>>
globals == <<MISRA_RULES, pdfplumber, fitz>>
vars == <<globals, uploaded, botVars, extVars>>

\* Python's None, where a str or a module is expected
None == <<"<None>">>

-----------------------------------------------------------------------------
(* Bounds *)

MaxFrags == 3
MaxPages == 3

-----------------------------------------------------------------------------
(* Strings *)

LowerLetters ==
    <<"a","b","c","d","e","f","g","h","i","j","k","l","m",
      "n","o","p","q","r","s","t","u","v","w","x","y","z">>
UpperLetters ==
    <<"A","B","C","D","E","F","G","H","I","J","K","L","M",
      "N","O","P","Q","R","S","T","U","V","W","X","Y","Z">>

Index(seq, c) == CHOOSE i \in 1..Len(seq) : seq[i] = c

\* the lower-case letter of every upper-case letter
LowerOf ==
    [c \in { UpperLetters[i] : i \in 1..Len(UpperLetters) } |->
        LowerLetters[Index(UpperLetters, c)]]

\* str.lower() on one character
lower_char(c) == IF c \in DOMAIN LowerOf THEN LowerOf[c] ELSE c

\* str.lower()
lower(s) == [i \in 1..Len(s) |-> lower_char(s[i])]

\* Python's  sub in s
contains(sub, s) ==
    \E i \in 0..(Len(s) - Len(sub)) : SubSeq(s, i + 1, i + Len(sub)) = sub

RECURSIVE join_without_separator(_, _)
\* join as "".join(parts): the separator is lost
join_without_separator(sep, parts) ==
    IF Len(parts) = 0 THEN <<>>
    ELSE parts[1] \o join_without_separator(sep, Tail(parts))

RECURSIVE join(_, _)
\* sep.join(parts)
join(sep, parts) ==
    IF Len(parts) = 0 THEN <<>>
    ELSE IF Len(parts) = 1 THEN parts[1]
    ELSE parts[1] \o sep \o join(sep, Tail(parts))

NL == <<"\n">>

-----------------------------------------------------------------------------
(* ask_bot *)

TenRules ==
    << "No dynamic memory allocation (malloc, free, calloc, realloc forbidden).",
       "All variables must be declared at the top of blocks.",
       "No recursion allowed.",
       "All functions must have explicit return types.",
       "Use const for read-only data.",
       "No mixed data types in expressions unless explicitly cast.",
       "Use static for internal linkage; avoid globals unless necessary.",
       "All switch statements must have a default case.",
       "Check array bounds explicitly before access.",
       "Avoid non-deterministic behavior: no undefined or unspecified constructs." >>

\* The code templates, each named by the function it defines.
LED_Blink   == "code: LED_Blink"
UART_Init   == "code: UART_Init"
SPI_Init    == "code: SPI_Init"
GPIO_Init   == "code: GPIO_Init"
I2C_Init    == "code: I2C_Init"
Timer_Init  == "code: Timer_Init"
ADC_Init    == "code: ADC_Init"
PWM_Init    == "code: PWM_Init"
Device_Init == "code: Device_Init"

kw_blink == <<"b","l","i","n","k">>
kw_led   == <<"l","e","d">>
kw_uart  == <<"u","a","r","t">>
kw_spi   == <<"s","p","i">>
kw_gpio  == <<"g","p","i","o">>
kw_i2c   == <<"i","2","c">>
kw_timer == <<"t","i","m","e","r">>
kw_adc   == <<"a","d","c">>
kw_pwm   == <<"p","w","m">>

\* header with the last rule left out (range one short)
header_one_rule_short(echo) ==
    LET header_lines ==
            << <<"/*">>,
               <<" * Auto-generated Embedded C Code (MISRA-C 2012 baseline)">>,
               <<" * Query: ">> \o echo,
               <<" *">>,
               <<" * MISRA Rules Applied:">> >>
            \o [i \in 1..(Len(MISRA_RULES) - 1) |-> <<" *  - ", MISRA_RULES[i]>>]
            \o << <<" */", "\n">> >>
    IN  join(NL, header_lines)

\* header_lines and header of ask_bot, for the query as echoed
header(echo) ==
    LET header_lines ==
            << <<"/*">>,
               <<" * Auto-generated Embedded C Code (MISRA-C 2012 baseline)">>,
               <<" * Query: ">> \o echo,
               <<" *">>,
               <<" * MISRA Rules Applied:">> >>
            \o [i \in 1..Len(MISRA_RULES) |-> <<" *  - ", MISRA_RULES[i]>>]
            \o << <<" */", "\n">> >>
    IN  join(NL, header_lines)

\* select with the uart test moved before the blink/led test
select_uart_first(q) ==
    IF contains(kw_uart, q) THEN UART_Init
    ELSE IF contains(kw_blink, q) \/ contains(kw_led, q) THEN LED_Blink
    ELSE IF contains(kw_spi, q)   THEN SPI_Init
    ELSE IF contains(kw_gpio, q)  THEN GPIO_Init
    ELSE IF contains(kw_i2c, q)   THEN I2C_Init
    ELSE IF contains(kw_timer, q) THEN Timer_Init
    ELSE IF contains(kw_adc, q)   THEN ADC_Init
    ELSE IF contains(kw_pwm, q)   THEN PWM_Init
    ELSE Device_Init

\* the chain of tests of ask_bot on the lower-cased query q
select(q) ==
    IF contains(kw_blink, q) \/ contains(kw_led, q) THEN LED_Blink
    ELSE IF contains(kw_uart, q)  THEN UART_Init
    ELSE IF contains(kw_spi, q)   THEN SPI_Init
    ELSE IF contains(kw_gpio, q)  THEN GPIO_Init
    ELSE IF contains(kw_i2c, q)   THEN I2C_Init
    ELSE IF contains(kw_timer, q) THEN Timer_Init
    ELSE IF contains(kw_adc, q)   THEN ADC_Init
    ELSE IF contains(kw_pwm, q)   THEN PWM_Init
    ELSE Device_Init

\* matched without the call of lower()
matched_raw(qry, text) == qry

\* matched with the datasheet text searched as well
matched_with_text(qry, text) == lower(qry \o text)

\* the string matched against the keywords
matched(qry, text) == lower(qry)

ask_bot(query0, text) ==
    LET qry == IF query0 = None THEN <<>> ELSE query0
        q   == matched(qry, text)
    IN  header(qry) \o <<select(q)>>

-----------------------------------------------------------------------------
(* The query a caller passes: typed into app.py's text_input piece by piece *)

Frags ==
    { kw_blink, kw_led, kw_uart, kw_spi, kw_gpio, kw_i2c, kw_timer, kw_adc, kw_pwm,
      <<"L","E","D">>, <<"U","a","R","t">>, <<" ">>, <<"x">> }

RECURSIVE QueriesOf(_)
\* the queries made of at most n pieces
QueriesOf(n) ==
    IF n = 0 THEN { <<>> }
    ELSE LET shorter == QueriesOf(n - 1)
         IN  shorter \cup { s \o f : s \in shorter, f \in Frags }

Queries == QueriesOf(MaxFrags)

\* datasheet texts a caller passes
Texts == { <<>>, <<"P","1"," ">> \o kw_uart \o NL \o <<"P","2"," ">> \o kw_led }

NoResponse == <<>>

\* app.py:8 -- the user extends the text of the input box by a piece, within
\* the queries allowed; Streamlit reruns the script with the button unpressed,
\* so no code block is shown any more
EnterQuery(pieces, allowed) ==
    /\ pc = "idle"
    /\ \E f \in pieces :
          /\ (query \o f) \in allowed
          /\ query' = query \o f
    /\ asked' = None
    /\ datasheet_text' = None
    /\ response' = NoResponse
    /\ UNCHANGED <<prev, globals, uploaded, extVars>>

TypeQuery == EnterQuery(Frags, Queries)

\* app.py:8 -- the user empties the input box
ClearQuery ==
    /\ pc = "idle"
    /\ query # <<>>
    /\ query' = <<>>
    /\ asked' = None
    /\ datasheet_text' = None
    /\ response' = NoResponse
    /\ UNCHANGED <<prev, globals, uploaded, extVars>>

\* a call  ask_bot(qry, text)  and the value it returns
AskBotCall(qry, text) ==
    /\ asked' = qry
    /\ datasheet_text' = text
    /\ response' = ask_bot(qry, text)

\* ask_bot called with the query as typed and any datasheet text
DirectAsk ==
    /\ pc = "idle"
    /\ \E text \in Texts : AskBotCall(query, text)
    /\ UNCHANGED <<query, prev, globals, uploaded, extVars>>

NoUpload == [kind |-> "None", n |-> 0, blank |-> {}]

InitGlobals ==
    /\ MISRA_RULES = TenRules
    /\ pdfplumber \in {<<"module">>, None}
    /\ fitz \in {<<"module">>, None}

InitBot ==
    /\ query = <<>>
    /\ asked = None
    /\ datasheet_text = None
    /\ response = NoResponse
    /\ prevAsked = None
    /\ prevText = None
    /\ prevResponse = NoResponse

InitExt ==
    /\ pc = "idle"
    /\ caller = "none"
    /\ uploaded_file = NoUpload
    /\ text_parts = <<>>
    /\ idx = 0
    /\ handles = {}
    /\ result = None
    /\ opened = {}
    /\ attempted = {}
    /\ pageFailed = {}
    /\ faults = {}

Init == InitGlobals /\ InitBot /\ InitExt /\ uploaded = NoUpload

\* both optional imports succeeded
InitInstalled == Init /\ pdfplumber # None /\ fitz # None

NextBot == TypeQuery \/ ClearQuery \/ DirectAsk

SpecBot == InitInstalled /\ [][NextBot]_vars

-----------------------------------------------------------------------------
(* extract_text *)

Backends == {"pdfplumber", "fitz"}

Digits == <<"1","2","3","4","5","6","7","8","9">>

\* what the pages of a datasheet are about
Topics == <<kw_uart, kw_spi, kw_adc, kw_pwm, kw_timer>>

\* A payload: a stream (it has .read) or a path, holding a PDF of n pages of
\* which the pages in blank carry no text.
PayloadsOf(kinds, maxn) ==
    { [kind |-> k, n |-> n, blank |-> b] :
        k \in kinds, n \in 0..maxn, b \in SUBSET (1..maxn) }
    \ { p \in [kind : kinds, n : 0..maxn, blank : SUBSET (1..maxn)] :
          \E i \in p.blank : i > p.n }

Payloads == PayloadsOf({"stream", "path"}, MaxPages)

\* page.extract_text() / page.get_text("text") of page i (1-based) of payload p:
\* each backend renders the page its own way; a page without text gives a
\* falsy value ("" or None)
PageText(backend, p, i) ==
    IF i \in p.blank THEN <<>>
    ELSE << (IF backend = "pdfplumber" THEN "P" ELSE "F"), Digits[i], " " >>
         \o Topics[((i - 1) % Len(Topics)) + 1]

\* Handler without the outermost try of extract_text (lines 81, 103-104)
Handler_no_outer_try(site) ==
    CASE site = "read"         -> "uncaught"
      [] site = "seek"         -> "except_87"
      [] site = "path"         -> "except_101"
      [] site = "plumber_open" -> "except_55"
      [] site = "plumber_iter" -> "except_55"
      [] site = "plumber_page" -> "except_52"
      [] site = "plumber_exit" -> "except_55"
      [] site = "fitz_open"    -> "except_76"
      [] site = "fitz_iter"    -> "except_76"
      [] site = "fitz_page"    -> "except_72"
      [] site = "fitz_close"   -> "except_76"

\* Handler without the per-page try of the two loops (lines 48, 52, 68, 72)
Handler_no_page_try(site) ==
    CASE site = "read"         -> "except_103"
      [] site = "seek"         -> "except_87"
      [] site = "path"         -> "except_101"
      [] site = "plumber_open" -> "except_55"
      [] site = "plumber_iter" -> "except_55"
      [] site = "plumber_page" -> "except_55"
      [] site = "plumber_exit" -> "except_55"
      [] site = "fitz_open"    -> "except_76"
      [] site = "fitz_iter"    -> "except_76"
      [] site = "fitz_page"    -> "except_76"
      [] site = "fitz_close"   -> "except_76"

\* The except clause that catches an exception raised at a site, by the line
\* of the clause.
Handler(site) ==
    CASE site = "read"         -> "except_103"
      [] site = "seek"         -> "except_87"
      [] site = "path"         -> "except_101"
      [] site = "plumber_open" -> "except_55"
      [] site = "plumber_iter" -> "except_55"
      [] site = "plumber_page" -> "except_52"
      [] site = "plumber_exit" -> "except_55"
      [] site = "fitz_open"    -> "except_76"
      [] site = "fitz_iter"    -> "except_76"
      [] site = "fitz_page"    -> "except_72"
      [] site = "fitz_close"   -> "except_76"

\* Where control continues after an except clause has run.
Landing(clause) ==
    CASE clause = "except_52"  -> "plumber_page"  \* next page
      [] clause = "except_55"  -> "fitz_open"     \* return False; if not used
      [] clause = "except_72"  -> "fitz_page"     \* next page
      [] clause = "except_76"  -> "join"          \* return False
      [] clause = "except_87"  -> "plumber_open"  \* pass
      [] clause = "except_101" -> "join"
      [] clause = "except_103" -> "join"
      [] OTHER                 -> "escaped"       \* no clause: the caller gets it

Raise(site) ==
    /\ faults' = faults \cup {site}
    /\ pc' = Landing(Handler(site))

\* extract_text(p) is entered: text_parts = []
ExtractCall(p, who) ==
    /\ caller' = who
    /\ uploaded_file' = p
    /\ text_parts' = <<>>
    /\ idx' = 0
    /\ handles' = {}
    /\ result' = None
    /\ opened' = {}
    /\ attempted' = {}
    /\ pageFailed' = {}
    /\ faults' = {}
    /\ pc' = IF p.kind = "stream" THEN "read" ELSE "path"

\* a caller other than the form calls extract_text
DirectExtract ==
    /\ pc \in {"idle", "done"}
    /\ \E p \in Payloads : ExtractCall(p, "direct")
    /\ UNCHANGED <<globals, uploaded, botVars>>

\* b = uploaded_file.read()
StreamRead ==
    /\ pc = "read"
    /\ \/ pc' = "seek" /\ UNCHANGED faults
       \/ Raise("read")
    /\ UNCHANGED <<globals, uploaded, botVars, caller, uploaded_file, text_parts,
                   idx, handles, result, opened, attempted, pageFailed>>

\* uploaded_file.seek(0), failure ignored
StreamSeek ==
    /\ pc = "seek"
    /\ \/ pc' = "plumber_open" /\ UNCHANGED faults
       \/ Raise("seek")
    /\ UNCHANGED <<globals, uploaded, botVars, caller, uploaded_file, text_parts,
                   idx, handles, result, opened, attempted, pageFailed>>

\* with open(path, "rb") as fh: b = fh.read()
PathRead ==
    /\ pc = "path"
    /\ \/ pc' = "plumber_open" /\ UNCHANGED faults
       \/ Raise("path")
    /\ UNCHANGED <<globals, uploaded, botVars, caller, uploaded_file, text_parts,
                   idx, handles, result, opened, attempted, pageFailed>>

\* _pdfplumber_from_bytes up to the for statement
PlumberOpen ==
    /\ pc = "plumber_open"
    /\ attempted' = attempted \cup {"pdfplumber"}
    /\ \/ /\ pdfplumber = None                  \* return False; if not used
          /\ pc' = "fitz_open"
          /\ UNCHANGED <<handles, opened, faults>>
       \/ /\ pdfplumber # None
          /\ handles' = handles \cup {"pdfplumber"}
          /\ opened' = opened \cup {"pdfplumber"}
          /\ pc' = "plumber_page"
          /\ UNCHANGED faults
       \/ /\ pdfplumber # None
          /\ Raise("plumber_open")
          /\ UNCHANGED <<handles, opened>>
    /\ idx' = 0
    /\ UNCHANGED <<globals, uploaded, botVars, caller, uploaded_file, text_parts,
                   result, pageFailed>>

\* one turn of the for loop over pdf.pages
PlumberPage ==
    /\ pc = "plumber_page"
    /\ idx < uploaded_file.n
    /\ idx' = idx + 1
    /\ \/ /\ LET ptext == PageText("pdfplumber", uploaded_file, idx + 1)
             IN  text_parts' = IF ptext # <<>> THEN Append(text_parts, ptext)
                               ELSE text_parts
          /\ UNCHANGED <<pc, pageFailed>>
       \/ /\ pageFailed' = pageFailed \cup {<<"pdfplumber", idx + 1>>}
          /\ pc' = Landing(Handler("plumber_page"))
          /\ UNCHANGED text_parts
    /\ UNCHANGED <<globals, uploaded, botVars, caller, uploaded_file, handles,
                   result, opened, attempted, faults>>

\* pdf.pages, or the step to the next page, raises: the with statement closes
\* the document while the exception passes
PlumberIterFail ==
    /\ pc = "plumber_page"
    /\ handles' = handles \ {"pdfplumber"}
    /\ Raise("plumber_iter")
    /\ UNCHANGED <<globals, uploaded, botVars, caller, uploaded_file, text_parts,
                   idx, result, opened, attempted, pageFailed>>

\* the loop is over: the with statement closes the document; return True.
\* A close that raises has run, and nothing can release the handle further:
\* the handle counts as released.
PlumberExit ==
    /\ pc = "plumber_page"
    /\ idx = uploaded_file.n
    /\ handles' = handles \ {"pdfplumber"}
    /\ \/ pc' = "join" /\ UNCHANGED faults
       \/ Raise("plumber_exit")
    /\ UNCHANGED <<globals, uploaded, botVars, caller, uploaded_file, text_parts,
                   idx, result, opened, attempted, pageFailed>>

\* _fitz_from_bytes up to the for statement
FitzOpen ==
    /\ pc = "fitz_open"
    /\ attempted' = attempted \cup {"fitz"}
    /\ \/ /\ fitz = None                        \* return False
          /\ pc' = "join"
          /\ UNCHANGED <<handles, opened, faults>>
       \/ /\ fitz # None
          /\ handles' = handles \cup {"fitz"}
          /\ opened' = opened \cup {"fitz"}
          /\ pc' = "fitz_page"
          /\ UNCHANGED faults
       \/ /\ fitz # None
          /\ Raise("fitz_open")
          /\ UNCHANGED <<handles, opened>>
    /\ idx' = 0
    /\ UNCHANGED <<globals, uploaded, botVars, caller, uploaded_file, text_parts,
                   result, pageFailed>>

\* one turn of the for loop over doc
FitzPage ==
    /\ pc = "fitz_page"
    /\ idx < uploaded_file.n
    /\ idx' = idx + 1
    /\ \/ /\ LET ptext == PageText("fitz", uploaded_file, idx + 1)
             IN  text_parts' = IF ptext # <<>> THEN Append(text_parts, ptext)
                               ELSE text_parts
          /\ UNCHANGED <<pc, pageFailed>>
       \/ /\ pageFailed' = pageFailed \cup {<<"fitz", idx + 1>>}
          /\ pc' = Landing(Handler("fitz_page"))
          /\ UNCHANGED text_parts
    /\ UNCHANGED <<globals, uploaded, botVars, caller, uploaded_file, handles,
                   result, opened, attempted, faults>>

\* the step to the next page raises (the page cannot be loaded): control
\* leaves the loop for the except clause, past doc.close()
FitzIterFail ==
    /\ pc = "fitz_page"
    /\ Raise("fitz_iter")
    /\ UNCHANGED <<globals, uploaded, botVars, caller, uploaded_file, text_parts,
                   idx, handles, result, opened, attempted, pageFailed>>

\* the loop is over: doc.close(); return True.  A close that raises counts as
\* having released the handle, as in PlumberExit.
FitzClose ==
    /\ pc = "fitz_page"
    /\ idx = uploaded_file.n
    /\ handles' = handles \ {"fitz"}
    /\ \/ pc' = "join" /\ UNCHANGED faults
       \/ Raise("fitz_close")
    /\ UNCHANGED <<globals, uploaded, botVars, caller, uploaded_file, text_parts,
                   idx, result, opened, attempted, pageFailed>>

\* result = "\n".join(text_parts); return result
Return ==
    /\ pc = "join"
    /\ result' = join(NL, text_parts)
    /\ pc' = "done"
    /\ UNCHANGED <<globals, uploaded, botVars, caller, uploaded_file, text_parts,
                   idx, handles, opened, attempted, pageFailed, faults>>

BackendSteps ==
    \/ PlumberOpen \/ PlumberPage \/ PlumberIterFail \/ PlumberExit
    \/ FitzOpen \/ FitzPage \/ FitzIterFail \/ FitzClose
    \/ Return

NextExtract ==
    DirectExtract \/ StreamRead \/ StreamSeek \/ PathRead \/ BackendSteps

SpecExtract == Init /\ [][NextExtract]_vars

-----------------------------------------------------------------------------
(* app.py: the form *)

\* the queries and the uploads of the form's state space
AppFrags == { kw_led, <<"L","E","D">>, kw_uart, <<"x">> }
AppUploads ==
    { [kind |-> "stream", n |-> 2, blank |-> {2}],
      [kind |-> "stream", n |-> 1, blank |-> {1}] }

TypeShortQuery == EnterQuery(AppFrags, AppFrags)

\* app.py:7 -- the user picks another file, or removes the file
Upload ==
    /\ pc = "idle"
    /\ \E u \in AppUploads \cup {NoUpload} :
          /\ u # uploaded
          /\ uploaded' = u
    /\ asked' = None
    /\ datasheet_text' = None
    /\ response' = NoResponse
    /\ UNCHANGED <<query, prev, globals, extVars>>

\* history: the call just made is remembered, or the remembered one is kept
Remember ==
    \/ UNCHANGED prev
    \/ /\ prevAsked' = asked'
       /\ prevText' = datasheet_text'
       /\ prevResponse' = response'

\* app.py:10-12 -- Generate Code with a file and a query: the script reruns
\* (nothing is shown yet) and calls extract_text(uploaded)
GenerateWithUpload ==
    /\ pc = "idle"
    /\ uploaded # NoUpload
    /\ query # <<>>
    /\ ExtractCall(uploaded, "app")
    /\ asked' = None
    /\ datasheet_text' = None
    /\ response' = NoResponse
    /\ UNCHANGED <<globals, uploaded, query, prev>>

\* app.py:13-14 -- extract_text has returned: result = ask_bot(query, text).
\* The locals of the extract_text call, and its history, are gone.
AskWithText ==
    /\ pc = "done"
    /\ caller = "app"
    /\ AskBotCall(query, result)
    /\ Remember
    /\ pc' = "idle"
    /\ caller' = "none"
    /\ uploaded_file' = NoUpload
    /\ text_parts' = <<>>
    /\ idx' = 0
    /\ handles' = {}
    /\ result' = None
    /\ opened' = {}
    /\ attempted' = {}
    /\ pageFailed' = {}
    /\ faults' = {}
    /\ UNCHANGED <<query, globals, uploaded>>

\* app.py:15-17 -- Generate Code with a query only: ask_bot(query, "").
\* (app.py:18-19, no query: a warning, no call.)
GenerateQueryOnly ==
    /\ pc = "idle"
    /\ uploaded = NoUpload
    /\ query # <<>>
    /\ AskBotCall(query, <<>>)
    /\ Remember
    /\ UNCHANGED <<query, globals, uploaded, extVars>>

Next ==
    \/ TypeShortQuery \/ ClearQuery \/ Upload
    \/ GenerateWithUpload \/ AskWithText \/ GenerateQueryOnly
    \/ StreamRead \/ StreamSeek \/ BackendSteps

Spec == Init /\ [][Next]_vars

-----------------------------------------------------------------------------
(* Reading a string *)

Templates ==
    { LED_Blink, UART_Init, SPI_Init, GPIO_Init, I2C_Init, Timer_Init, ADC_Init,
      PWM_Init, Device_Init }

\* the atoms of s that are code templates, as positions
TemplatePositions(s) == { i \in 1..Len(s) : s[i] \in Templates }

TemplateOf(s) == s[CHOOSE i \in TemplatePositions(s) : TRUE]

RECURSIVE Lines(_)
\* s split at its newline atoms
Lines(s) ==
    IF \A i \in 1..Len(s) : s[i] # "\n" THEN << s >>
    ELSE LET k == CHOOSE i \in 1..Len(s) :
                      s[i] = "\n" /\ \A j \in 1..(i - 1) : s[j] # "\n"
         IN  << SubSeq(s, 1, k - 1) >> \o Lines(SubSeq(s, k + 1, Len(s)))

\* the upper-case letter of every lower-case letter
UpperOf ==
    [c \in { LowerLetters[i] : i \in 1..Len(LowerLetters) } |->
        UpperLetters[Index(LowerLetters, c)]]

\* a and b are the same character up to letter case
SameLetter(a, b) ==
    \/ a = b
    \/ a \in DOMAIN UpperOf /\ UpperOf[a] = b
    \/ b \in DOMAIN UpperOf /\ UpperOf[b] = a

\* kw occurs in s when letter case is ignored
OccursIgnoringCase(kw, s) ==
    \E i \in 0..(Len(s) - Len(kw)) :
        \A j \in 1..Len(kw) : SameLetter(s[i + j], kw[j])

\* the tests in their documented order, with the template each selects
Precedence ==
    << [kws |-> {kw_blink, kw_led}, code |-> LED_Blink],
       [kws |-> {kw_uart},  code |-> UART_Init],
       [kws |-> {kw_spi},   code |-> SPI_Init],
       [kws |-> {kw_gpio},  code |-> GPIO_Init],
       [kws |-> {kw_i2c},   code |-> I2C_Init],
       [kws |-> {kw_timer}, code |-> Timer_Init],
       [kws |-> {kw_adc},   code |-> ADC_Init],
       [kws |-> {kw_pwm},   code |-> PWM_Init] >>

Satisfied(s) ==
    { i \in 1..Len(Precedence) :
        \E kw \in Precedence[i].kws : OccursIgnoringCase(kw, s) }

-----------------------------------------------------------------------------
(* Claims about ask_bot *)

\* C1: every response carries exactly one template, the one of the first
\* satisfied test in the order (blink or led) > uart > spi > gpio > i2c > timer
\* > adc > pwm, and the placeholder when no test is satisfied (the empty
\* query included).
C1_FirstSatisfiedTest ==
    asked # None =>
        /\ Cardinality(TemplatePositions(response)) = 1
        /\ LET sat == Satisfied(asked)
           IN  TemplateOf(response) =
                   IF sat = {} THEN Device_Init
                   ELSE Precedence[CHOOSE i \in sat : \A j \in sat : i <= j].code

\* the query "blink uart" was answered with the LED template
C1_Witness ==
    /\ asked = kw_blink \o <<" ">> \o kw_uart
    /\ Cardinality(Satisfied(asked)) = 2
    /\ TemplateOf(response) = LED_Blink

swapcase(s) ==
    [i \in 1..Len(s) |->
        IF s[i] \in DOMAIN UpperOf THEN UpperOf[s[i]]
        ELSE IF s[i] \in DOMAIN LowerOf THEN LowerOf[s[i]]
        ELSE s[i]]

\* s with the case of the letters at odd (even) positions swapped
swapodd(s, parity) ==
    [i \in 1..Len(s) |-> IF i % 2 = parity THEN swapcase(<<s[i]>>)[1] ELSE s[i]]

\* some queries that differ from s only in letter case
CaseVariants(s) == { swapcase(s), swapodd(s, 0), swapodd(s, 1) }

\* C2: queries that differ only in letter case select the same template, and
\* the header echoes the query exactly as passed, in its original case.
C2_CaseInsensitiveMatchVerbatimEcho ==
    asked # None =>
        /\ \A v \in CaseVariants(asked) :
              /\ \A i \in 1..Len(v) : SameLetter(v[i], asked[i])
              /\ TemplateOf(ask_bot(v, datasheet_text)) = TemplateOf(response)
        /\ Lines(response)[3] = <<" * Query: ">> \o asked

\* "LED" was asked: the LED template is selected, as for "led", and the header
\* shows "LED"
C2_Witness ==
    /\ asked = <<"L","E","D">>
    /\ TemplateOf(response) = LED_Blink
    /\ swapcase(asked) = kw_led
    /\ Lines(response)[3] = <<" * Query: ", "L", "E", "D">>

\* C8: every response starts with the same header but for the echoed query:
\* the marker lines, then the ten rule strings verbatim, in order, each on a
\* line of its own, then the end of the comment; the template follows.
C8_HeaderHasTheTenRules ==
    asked # None =>
        LET L == Lines(response)
        IN  /\ Len(L) = 17
            /\ L[1] = <<"/*">>
            /\ L[2] = <<" * Auto-generated Embedded C Code (MISRA-C 2012 baseline)">>
            /\ SubSeq(L[3], 1, 1) = <<" * Query: ">>
            /\ L[4] = <<" *">>
            /\ L[5] = <<" * MISRA Rules Applied:">>
            /\ \A i \in 1..10 : L[5 + i] = <<" *  - ", TenRules[i]>>
            /\ L[16] = <<" */">>
            /\ L[17] = <<TemplateOf(response)>>
            /\ \A r \in 1..10 :
                  Cardinality({ i \in 1..Len(response) : response[i] = TenRules[r] }) = 1

\* two different templates were each returned under the header
C8_Witness ==
    /\ asked = kw_pwm
    /\ TemplateOf(response) = PWM_Init
    /\ Lines(response)[15] = <<" *  - ", TenRules[10]>>

-----------------------------------------------------------------------------
(* Claims about extract_text *)

Returned == pc = "done"

\* the failure sites that lie after a document has been opened
AfterOpenSites == {"plumber_iter", "plumber_exit", "fitz_iter", "fitz_close"}

\* the texts backend b gives for the pages of p other than those in skip that
\* carry text, in page order
TextsInOrder(b, p, skip) ==
    LET keep(i) == i \notin skip /\ i \notin p.blank
        RECURSIVE From(_)
        From(i) == IF i > p.n THEN <<>>
                   ELSE IF keep(i) THEN <<PageText(b, p, i)>> \o From(i + 1)
                   ELSE From(i + 1)
    IN  From(1)

\* s is the texts of ts, one per line
IsLinesOf(s, ts) == IF ts = <<>> THEN s = <<>> ELSE Lines(s) = ts

IsString(s) == s # None /\ \A i \in 1..Len(s) : s[i] \in STRING

\* C3: no exception escapes extract_text and it returns a string, whatever
\* fails; the string is empty when no page text was collected (zero pages, no
\* document opened, nothing read).
C3_NeverRaisesReturnsString ==
    /\ pc # "escaped"
    /\ Returned =>
          /\ IsString(result)
          /\ text_parts = <<>> => result = <<>>
          /\ (uploaded_file.n = 0 \/ opened = {}) => result = <<>>

\* the stream could not be read: extract_text returned the empty string
C3_Witness ==
    /\ Returned
    /\ "read" \in faults
    /\ result = <<>>

\* C4: fitz is attempted only if pdfplumber was not used; once pdfplumber has
\* opened the document fitz is never attempted, whatever happens afterwards.
C4_SecondaryOnlyIfPrimaryNotOpened ==
    "fitz" \in attempted => "pdfplumber" \notin opened

\* C5 as stated: on a well-formed multi-page PDF (the document opens, nothing
\* fails) the result is non-empty and is every page's text in page order,
\* one per line.
C5_EveryPageTextJoined ==
    \A b \in Backends :
        ( /\ Returned
          /\ opened = {b}
          /\ pageFailed = {}
          /\ faults \cap AfterOpenSites = {}
          /\ uploaded_file.n >= 2 )
        => /\ result # <<>>
           /\ Lines(result) =
                  [i \in 1..uploaded_file.n |-> PageText(b, uploaded_file, i)]

\* C5 amended: on a well-formed multi-page PDF (the document opens, and no
\* page, page iteration or close fails) the result is the text of the pages
\* that carry text, in page order, one per line; it is non-empty exactly when
\* some page carries text.
C5_NonEmptyPageTextsJoined ==
    \A b \in Backends :
        ( /\ Returned
          /\ opened = {b}
          /\ pageFailed = {}
          /\ faults \cap AfterOpenSites = {}
          /\ uploaded_file.n >= 2 )
        => /\ IsLinesOf(result, TextsInOrder(b, uploaded_file, {}))
           /\ result # <<>> <=> uploaded_file.blank # 1..uploaded_file.n

\* a three-page PDF whose second page carries no text was extracted by
\* pdfplumber: pages 1 and 3, in order
C5_Witness ==
    /\ Returned
    /\ opened = {"pdfplumber"}
    /\ pageFailed = {}
    /\ faults = {}
    /\ uploaded_file.n = 3
    /\ uploaded_file.blank = {2}
    /\ Len(Lines(result)) = 2
    /\ Lines(result)[1] = PageText("pdfplumber", uploaded_file, 1)
    /\ Lines(result)[2] = PageText("pdfplumber", uploaded_file, 3)

\* C6: when exactly one page throws during text retrieval (and nothing else
\* fails once the document is open), the result is the text of every other
\* page, in page order, without the failing page, in either backend and for
\* any position of the failing page; no exception escapes.
C6_OneFailingPageSkipped ==
    \A b \in Backends : \A k \in 1..uploaded_file.n :
        ( /\ pc \in {"done", "escaped"}
          /\ opened = {b}
          /\ pageFailed = {<<b, k>>}
          /\ faults \cap AfterOpenSites = {} )
        => /\ Returned
           /\ IsLinesOf(result, TextsInOrder(b, uploaded_file, {k}))

\* fitz extracted a three-page PDF whose middle page threw
C6_Witness ==
    /\ Returned
    /\ opened = {"fitz"}
    /\ pageFailed = {<<"fitz", 2>>}
    /\ faults \cap AfterOpenSites = {}
    /\ uploaded_file.n = 3
    /\ uploaded_file.blank = {}
    /\ Lines(result) = << PageText("fitz", uploaded_file, 1),
                          PageText("fitz", uploaded_file, 3) >>

\* C7: when extract_text returns, no document it opened is still open.
C7_HandlesReleasedOnReturn ==
    Returned => handles = {}

\* the atoms of s that tag a text collected by backend b
CollectedBy(b, s) ==
    { i \in 1..Len(s) : s[i] = (IF b = "pdfplumber" THEN "P" ELSE "F") }

\* C10: the returned string never holds fragments collected by pdfplumber
\* together with fragments collected by fitz.
C10_FragmentsOfOneBackend ==
    Returned =>
        ~ ( /\ CollectedBy("pdfplumber", result) # {}
            /\ CollectedBy("fitz", result) # {} )

-----------------------------------------------------------------------------
(* Claims about the calls together *)

\* C9: the response of ask_bot depends on the query alone: a call returns
\* what any earlier call with the same query returned, whatever datasheet
\* text either was given and whatever calls of ask_bot and extract_text came
\* between; the rule list is never modified.
C9_ResponseDependsOnQueryOnly ==
    /\ MISRA_RULES = TenRules
    /\ (asked # None /\ prevAsked = asked) => response = prevResponse

\* the same query was answered twice, once with no datasheet text and once
\* with the text extract_text returned, with the same response
C9_Witness ==
    /\ asked # None
    /\ prevAsked = asked
    /\ prevText = <<>>
    /\ datasheet_text # <<>>
    /\ response = prevResponse

====
